---- MODULE Spec2Model ----
(***************************************************************************)
(* PageRank (src/pagerank.py): the transition model, the sampling          *)
(* estimator and the iterative solver.                                     *)
(*                                                                         *)
(* Python floats are modelled as exact rationals <<numerator, denominator>> *)
(* in lowest terms with a positive denominator, so that "sums to 1" and    *)
(* the threshold comparison are decided exactly.                           *)
(***************************************************************************)
EXTENDS Integers, FiniteSets, Sequences, TLC

VARIABLES op, corpus, damping_factor, page, n, pc, err, result,
          nextSample, output, i, currentRank, run

vars == <<op, corpus, damping_factor, page, n, pc, err, result,
          nextSample, output, i, currentRank, run>>

(***************************************************************************)
(* Bounds of the model                                                     *)
(***************************************************************************)
\* largest sample count n handed to sample_pagerank
MaxSamples == 3

\* page identifiers; the first three are corpus keys of the enumerated graphs
Pages == {"A", "B", "C", "D"}

(***************************************************************************)
(* Exact rational arithmetic standing for Python's float operators.  The   *)
(* operations are functions, so that their arguments are values when the   *)
(* body is evaluated.                                                      *)
(***************************************************************************)
Rat == Int \X Int

Abs[x \in Int] == IF x < 0 THEN -x ELSE x

GCD[a \in Int, b \in Int] == IF b = 0 THEN a ELSE GCD[b, a % b]

\* a / b for integers a and b # 0, in lowest terms
Norm[a \in Int, b \in Int] ==
    LET s == IF b < 0 THEN -1 ELSE 1
        g == GCD[Abs[a], Abs[b]]
    IN  <<(s * a) \div g, (s * b) \div g>>

Zero == <<0, 1>>
One == <<1, 1>>

RAdd[x \in Rat, y \in Rat] ==
    LET g == GCD[x[2], y[2]]
        l == (x[2] \div g) * y[2]
    IN  Norm[x[1] * (l \div x[2]) + y[1] * (l \div y[2]), l]

RSub[x \in Rat, y \in Rat] == RAdd[x, <<-y[1], y[2]>>]

RMul[x \in Rat, y \in Rat] == Norm[x[1] * y[1], x[2] * y[2]]

\* x / k for a rational x and an integer k # 0 (k is always a len(...) or n)
RDivInt[x \in Rat, k \in Int] == Norm[x[1], x[2] * k]

RAbs[x \in Rat] == <<Abs[x[1]], x[2]>>

\* a/b < c/d for b, d > 0, decided on the integer parts and then on the
\* reciprocals of the fractional parts, without forming a product
Less[a \in Int, b \in Int, c \in Int, d \in Int] ==
    IF a \div b # c \div d THEN a \div b < c \div d
    ELSE IF c % d = 0 THEN FALSE
    ELSE IF a % b = 0 THEN TRUE
    ELSE Less[d, c % d, b, a % b]

RLess[x \in Rat, y \in Rat] == Less[x[1], x[2], y[1], y[2]]

\* sum of the values of a function of rationals (Python's sum over a dict)
RECURSIVE RSum(_, _)
RSum(f, S) ==
    IF S = {} THEN Zero
    ELSE LET k == CHOOSE k \in S : TRUE
         IN  RAdd[f[k], RSum(f, S \ {k})]

(***************************************************************************)
(* Inputs                                                                  *)
(***************************************************************************)
\* DAMPING = 0.85
DAMPING == <<17, 20>>

\* damping factors in (0, 1]
Dampings == {<<1, 4>>, <<1, 2>>, DAMPING, One}

\* damping factors under which the solver's exact ranks stay within
\* the integer range of the model checker
IterDampings == {<<1, 4>>, <<1, 2>>, One}

\* what crawl() returns for a set of pages: links only to other pages of
\* the corpus, never to the page itself
CrawlResults(S) == {g \in [S -> SUBSET S] : \A k \in S : k \notin g[k]}

\* a four-page corpus: A -> B, B -> {A, C}, C -> {A, D}, D -> {A, B}
Corpus4 ==
    [k \in Pages |-> CASE k = "A" -> {"B"}
                       [] k = "B" -> {"A", "C"}
                       [] k = "C" -> {"A", "D"}
                       [] k = "D" -> {"A", "B"}]

Corpora ==
    CrawlResults({}) \cup CrawlResults({"A"}) \cup CrawlResults({"A", "B"})
        \cup CrawlResults({"A", "B", "C"}) \cup {Corpus4}

Empty == [k \in {} |-> Zero]

(***************************************************************************)
(* transition_model                                                        *)
(***************************************************************************)
\* for pageLink in corpus[page]: output[pageLink] += prob
RECURSIVE AddLinks(_, _, _)
AddLinks(out, links, prob) ==
    IF links = {} THEN out
    ELSE LET pageLink == CHOOSE l \in links : TRUE
         IN  AddLinks([out EXCEPT ![pageLink] = RAdd[@, prob]],
                      links \ {pageLink}, prob)

\* variant: the link share divides by len(corpus) instead of len(corpus[page])
transition_model_prob(c, p, d) ==
    IF Cardinality(c[p]) = 0
    THEN [key \in DOMAIN c |-> RDivInt[One, Cardinality(DOMAIN c)]]
    ELSE LET base == [key \in DOMAIN c |->
                         RDivInt[RSub[One, d], Cardinality(DOMAIN c)]]
             prob == RDivInt[d, Cardinality(DOMAIN c)]
         IN  AddLinks(base, c[p], prob)

\* variant: a sink only gets the random-jump term
transition_model_nosink(c, p, d) ==
    LET base == [key \in DOMAIN c |->
                    RDivInt[RSub[One, d], Cardinality(DOMAIN c)]]
    IN  IF Cardinality(c[p]) = 0
        THEN base
        ELSE AddLinks(base, c[p], RDivInt[d, Cardinality(c[p])])

transition_model(c, p, d) ==
    IF Cardinality(c[p]) = 0
    THEN [key \in DOMAIN c |-> RDivInt[One, Cardinality(DOMAIN c)]]
    ELSE LET base == [key \in DOMAIN c |->
                         RDivInt[RSub[One, d], Cardinality(DOMAIN c)]]
             prob == RDivInt[d, Cardinality(c[p])]
         IN  AddLinks(base, c[p], prob)

(***************************************************************************)
(* iterate_pagerank                                                        *)
(***************************************************************************)
\* the convergence threshold of the loop, 0.0015
Threshold == <<3, 2000>>

\* variant: the mass of sinks is not redistributed (no elif branch)
RECURSIVE Summation_nosink(_, _, _, _)
Summation_nosink(c, rank, key, todo) ==
    IF todo = {} THEN Zero
    ELSE LET j == CHOOSE j \in todo : TRUE
             rest == Summation_nosink(c, rank, key, todo \ {j})
         IN  IF key \in c[j]
             THEN RAdd[rest, RDivInt[rank[j], Cardinality(c[j])]]
             ELSE rest

\* the inner loop "for i in corpus" accumulating summation for one key
RECURSIVE Summation(_, _, _, _)
Summation(c, rank, key, todo) ==
    IF todo = {} THEN Zero
    ELSE LET j == CHOOSE j \in todo : TRUE
             rest == Summation(c, rank, key, todo \ {j})
         IN  IF key \in c[j]
             THEN RAdd[rest, RDivInt[rank[j], Cardinality(c[j])]]
             ELSE IF Cardinality(c[j]) = 0
             THEN RAdd[rest, RDivInt[rank[j], Cardinality(DOMAIN c)]]
             ELSE rest

\* variant: the random-jump term is not divided by N
NewRank_jump(c, rank, d) ==
    [key \in DOMAIN rank |->
        RAdd[RSub[One, d], RMul[d, Summation(c, rank, key, DOMAIN c)]]]

NewRank(c, rank, d) ==
    [key \in DOMAIN rank |->
        RAdd[RDivInt[RSub[One, d], Cardinality(DOMAIN c)],
             RMul[d, Summation(c, rank, key, DOMAIN c)]]]

\* variant: any(...) instead of all(...)
Converged_any(rank, new) ==
    \E key \in DOMAIN rank :
        RLess[RAbs[RSub[rank[key], new[key]]], Threshold]

\* all(i < 0.0015 for i in diff)
Converged(rank, new) ==
    \A key \in DOMAIN rank :
        RLess[RAbs[RSub[rank[key], new[key]]], Threshold]

(***************************************************************************)
(* State machine                                                           *)
(***************************************************************************)
Init ==
    /\ op \in {"transition_model", "sample_pagerank", "iterate_pagerank"}
    /\ corpus \in Corpora
    /\ damping_factor \in
           IF op = "iterate_pagerank" THEN IterDampings ELSE Dampings
    /\ page \in IF op = "transition_model" THEN Pages ELSE {"-"}
    /\ n \in IF op = "sample_pagerank" THEN -1 .. MaxSamples ELSE {0}
    /\ pc = "call"
    /\ err = "none"
    /\ result = Empty
    /\ nextSample = "-"
    /\ output = Empty
    /\ i = 0
    /\ currentRank = Empty
    /\ run = FALSE

\* a call of transition_model(corpus, page, damping_factor)
TransitionModelCall ==
    /\ pc = "call"
    /\ op = "transition_model"
    /\ IF page \notin DOMAIN corpus
       THEN /\ pc' = "error"
            /\ err' = "KeyError"
            /\ UNCHANGED result
       ELSE /\ pc' = "done"
            /\ result' = transition_model(corpus, page, damping_factor)
            /\ UNCHANGED err
    /\ UNCHANGED <<op, corpus, damping_factor, page, n, nextSample, output,
                   i, currentRank, run>>

\* sample_pagerank up to the loop: the random start page and the zeroed counts
SampleStart ==
    /\ pc = "call"
    /\ op = "sample_pagerank"
    /\ IF DOMAIN corpus = {}
       THEN /\ pc' = "error"
            /\ err' = "IndexError"
            /\ UNCHANGED <<nextSample, output, i>>
       ELSE /\ \E firstSample \in DOMAIN corpus : nextSample' = firstSample
            /\ output' = [key \in DOMAIN corpus |-> 0]
            /\ i' = 1
            /\ pc' = "loop"
            /\ UNCHANGED err
    /\ UNCHANGED <<op, corpus, damping_factor, page, n, result, currentRank,
                   run>>

\* one pass of "for _ in range(1, n)"
SampleStep ==
    /\ pc = "loop"
    /\ op = "sample_pagerank"
    /\ i < n
    /\ output' = [output EXCEPT ![nextSample] = @ + 1]
    /\ LET dist == transition_model(corpus, nextSample, damping_factor)
       IN  \E next \in DOMAIN dist :
               /\ dist[next][1] > 0
               /\ nextSample' = next
    /\ i' = i + 1
    /\ UNCHANGED <<op, corpus, damping_factor, page, n, pc, err, result,
                   currentRank, run>>

\* the loop is exhausted: divide every count by n and return
SampleReturn ==
    /\ pc = "loop"
    /\ op = "sample_pagerank"
    /\ ~(i < n)
    /\ IF n = 0
       THEN /\ pc' = "error"
            /\ err' = "ZeroDivisionError"
            /\ UNCHANGED result
       ELSE /\ pc' = "done"
            /\ result' = [key \in DOMAIN output |-> Norm[output[key], n]]
            /\ UNCHANGED err
    /\ UNCHANGED <<op, corpus, damping_factor, page, n, nextSample, output,
                   i, currentRank, run>>

\* iterate_pagerank up to the loop: every page at rank 1/N
IterateStart ==
    /\ pc = "call"
    /\ op = "iterate_pagerank"
    /\ currentRank' =
           [key \in DOMAIN corpus |-> RDivInt[One, Cardinality(DOMAIN corpus)]]
    /\ run' = TRUE
    /\ pc' = "loop"
    /\ UNCHANGED <<op, corpus, damping_factor, page, n, err, result,
                   nextSample, output, i>>

\* variant: the pass forgets "currentRank = newRank"
IterateStep_noupdate ==
    /\ pc = "loop"
    /\ op = "iterate_pagerank"
    /\ run
    /\ LET newRank == NewRank(corpus, currentRank, damping_factor)
       IN  run' = ~Converged(currentRank, newRank)
    /\ UNCHANGED <<op, corpus, damping_factor, page, n, pc, err, result,
                   nextSample, output, i, currentRank>>

\* one pass of "while run"
IterateStep ==
    /\ pc = "loop"
    /\ op = "iterate_pagerank"
    /\ run
    /\ LET newRank == NewRank(corpus, currentRank, damping_factor)
       IN  /\ run' = ~Converged(currentRank, newRank)
           /\ currentRank' = newRank
    /\ UNCHANGED <<op, corpus, damping_factor, page, n, pc, err, result,
                   nextSample, output, i>>

\* return currentRank
IterateReturn ==
    /\ pc = "loop"
    /\ op = "iterate_pagerank"
    /\ ~run
    /\ result' = currentRank
    /\ pc' = "done"
    /\ UNCHANGED <<op, corpus, damping_factor, page, n, err, nextSample,
                   output, i, currentRank, run>>

Next ==
    \/ TransitionModelCall
    \/ SampleStart
    \/ SampleStep
    \/ SampleReturn
    \/ IterateStart
    \/ IterateStep
    \/ IterateReturn

Spec == Init /\ [][Next]_vars

\* the interpreter keeps executing a call until it returns or raises
FairSpec == Spec /\ WF_vars(Next)

(***************************************************************************)
(* Properties                                                              *)
(***************************************************************************)
N == Cardinality(DOMAIN corpus)

Sinks == {k \in DOMAIN corpus : corpus[k] = {}}

RECURSIVE IntSum(_, _)
IntSum(f, S) ==
    IF S = {} THEN 0
    ELSE LET k == CHOOSE k \in S : TRUE IN f[k] + IntSum(f, S \ {k})

Uniform(f) == \A k \in DOMAIN f : f[k] = Norm[1, Cardinality(DOMAIN f)]

TMDone == op = "transition_model" /\ pc = "done"

\* C1: transition_model returns a mapping over exactly the corpus' pages:
\* 1/N everywhere for a sink; otherwise (1-d)/N + d/|L| for the pages in the
\* out-link set L of the page and (1-d)/N for the others.  The expected
\* values are stated by cross-multiplication.
C1_TransitionValues ==
    TMDone =>
        /\ DOMAIN result = DOMAIN corpus
        /\ \A k \in DOMAIN corpus :
             LET L == Cardinality(corpus[page])
                 dn == damping_factor[1]
                 dd == damping_factor[2]
                 v == result[k]
             IN  IF L = 0
                 THEN v[1] * N = v[2]
                 ELSE IF k \in corpus[page]
                 THEN v[1] * (dd * N * L) = v[2] * ((dd - dn) * L + dn * N)
                 ELSE v[1] * (dd * N) = v[2] * (dd - dn)

C1_Witness ==
    /\ TMDone
    /\ damping_factor = DAMPING
    /\ N = 3
    /\ Cardinality(corpus[page]) = 1
    /\ \E k \in DOMAIN corpus : k # page /\ k \notin corpus[page]

\* C2: the values returned by transition_model sum to 1, for a sink and for
\* a page with out-links.
C2_TransitionSumsToOne ==
    TMDone => RSum(result, DOMAIN result) = One

C2_Witness ==
    /\ TMDone
    /\ damping_factor = <<1, 2>>
    /\ Sinks # {}
    /\ page \notin Sinks
    /\ Cardinality(corpus[page]) = 2
    /\ RSum(result, DOMAIN result) = One

\* C3: for n >= 1 sample_pagerank has recorded exactly n visits with n-1
\* transition draws when it returns, and the returned values sum to 1.
C3_NVisits ==
    (op = "sample_pagerank" /\ pc = "done" /\ n >= 1) =>
        /\ IntSum(output, DOMAIN output) = n
        /\ i - 1 = n - 1
        /\ RSum(result, DOMAIN result) = One

IterRunning ==
    op = "iterate_pagerank" /\ pc \in {"loop", "done"} /\ DOMAIN corpus # {}

IsDistribution(f) ==
    /\ RSum(f, DOMAIN f) = One
    /\ \A k \in DOMAIN f : f[k][1] >= 0

\* C4: in iterate_pagerank the rank vector sums to 1 initially and after
\* every iteration, sinks or not, and every value is non-negative; so does
\* the returned distribution.
C4_RankSumsToOne ==
    IterRunning =>
        /\ IsDistribution(currentRank)
        /\ pc = "done" => IsDistribution(result)

C4_Witness ==
    /\ IterRunning
    /\ pc = "done"
    /\ Sinks # {}
    /\ Sinks # DOMAIN corpus
    /\ ~Uniform(result)
    /\ IsDistribution(result)

IterDone == IterRunning /\ pc = "done"

\* the change of page k when one more iteration is applied to the result
NextChange(k) ==
    RAbs[RSub[NewRank(corpus, result, damping_factor)[k], result[k]]]

\* C5 (as claimed): one more iteration applied to the returned distribution
\* changes every page's value by strictly less than 0.001.
C5_FixedPoint ==
    IterDone => \A k \in DOMAIN result : RLess[NextChange(k), <<1, 1000>>]

\* C5 (amended): one more iteration applied to the returned distribution
\* changes the values by a total absolute amount strictly less than
\* N * 0.0015, and hence every single value by less than N * 0.0015 / 2.
C5_NearFixedPoint ==
    IterDone =>
        /\ RLess[RSum([k \in DOMAIN result |-> NextChange(k)], DOMAIN result),
                 <<3 * N, 2000>>]
        /\ \A k \in DOMAIN result : RLess[NextChange(k), <<3 * N, 4000>>]

C5_Witness ==
    /\ IterDone
    /\ \E k \in DOMAIN result : ~RLess[NextChange(k), <<1, 1000>>]

\* C6 (as claimed): for every damping factor in (0, 1] the loop of
\* iterate_pagerank eventually returns.
C6_Terminates ==
    (op = "iterate_pagerank" /\ DOMAIN corpus # {}) ~> (pc = "done")

\* C6 (amended): for every damping factor d with 0 < d < 1 the loop of
\* iterate_pagerank eventually returns.
C6_TerminatesBelowOne ==
    (op = "iterate_pagerank" /\ DOMAIN corpus # {}
        /\ RLess[damping_factor, One]) ~> (pc = "done")

C6_Witness ==
    /\ IterDone
    /\ RLess[damping_factor, One]
    /\ ~Uniform(result)

PreconditionViolated ==
    \/ DOMAIN corpus = {}
    \/ op = "transition_model" /\ page \notin DOMAIN corpus
    \/ op = "sample_pagerank" /\ n <= 0

\* C7: a call that violates a precondition (empty graph, page not in the
\* graph, sample count n <= 0) never returns a result.
C7_FailsLoudly ==
    PreconditionViolated => pc # "done"

\* C8: on a single page without out-links iterate_pagerank, and
\* sample_pagerank for n >= 1, return exactly {page: 1}; for n = 1 on any
\* graph sample_pagerank returns a one-hot distribution.
C8_SingleNode ==
    /\ (pc = "done" /\ N = 1 /\ op \in {"iterate_pagerank", "sample_pagerank"}
            /\ (op = "sample_pagerank" => n >= 1))
        => \A k \in DOMAIN result : result[k] = One
    /\ (pc = "done" /\ op = "sample_pagerank" /\ n = 1)
        => \E k \in DOMAIN result :
               /\ result[k] = One
               /\ \A j \in DOMAIN result \ {k} : result[j] = Zero

\* C9: the loop starts with every page at 1/N and a pass ends the loop
\* exactly when every page's old and new rank differ by strictly less than
\* 0.001; otherwise the new ranks become current and the loop goes on.
C9_StopsAtThreshold ==
    [][/\ (pc = "call" /\ pc' = "loop" /\ op = "iterate_pagerank")
            => Uniform(currentRank')
       /\ (pc = "loop" /\ op = "iterate_pagerank" /\ run)
            => /\ currentRank' = NewRank(corpus, currentRank, damping_factor)
               /\ run' = FALSE <=>
                    \A k \in DOMAIN currentRank :
                        RLess[RAbs[RSub[currentRank[k], currentRank'[k]]],
                              <<1, 1000>>]]_vars

\* r pushed through the transition model: sum over i of r[i] * T(i)[p]
PushThrough(c, r, d) ==
    [p \in DOMAIN c |->
        RSum([j \in DOMAIN c |-> RMul[r[j], transition_model(c, j, d)[p]]],
             DOMAIN c)]

\* C10: one iteration of the solver equals pushing the current rank vector
\* (summing to 1) through the transition model, page by page.
C10_StepIsTransition ==
    (IterRunning /\ pc = "loop") =>
        NewRank(corpus, currentRank, damping_factor)
            = PushThrough(corpus, currentRank, damping_factor)

C10_Witness ==
    /\ IterRunning
    /\ pc = "loop"
    /\ Sinks # {}
    /\ Sinks # DOMAIN corpus
    /\ ~Uniform(currentRank)
    /\ damping_factor = <<1, 2>>
    /\ IsDistribution(currentRank)

====
